---- MODULE Spec2Model ----
(***************************************************************************)
(* State-machine model of the chat backend: the socket handlers of         *)
(* src/unnamed/part_000 (socketHandler), the REST handlers of              *)
(* src/routes/messages.js and the Chat / Message schemas.  Every await on  *)
(* the store is one atomic step of a handler; handlers interleave at       *)
(* these steps.                                                            *)
(***************************************************************************)
EXTENDS Integers, Sequences, FiniteSets, TLC

\* ------------------------------------------------------------- bounds
NumUsers == 2
NumProcs == 2
NumSockets == 3
MaxSeed == 2
MaxTime == 2
MaxChats == 3

\* --------------------------------------------------------- identities
(* An identity string is modelled by a natural number whose order is the   *)
(* strings' code-unit order.  User u is stored under the lower-case hex    *)
(* string Lower(u); Upper(u) is the same 24 hex digits written in upper    *)
(* case ("65A1..." sorts right before "65a1...").  Both cast to the same   *)
(* ObjectId.  UnknownId is a well-formed id of no user.                    *)
Null == 0
Lower(u) == 2 * u
Upper(u) == 2 * u - 1
UserIds == {Lower(u) : u \in 1..NumUsers}
UnknownId == 2 * NumUsers + 2
RawIds == (1..(2 * NumUsers)) \cup {UnknownId}

\* ObjectId cast followed by toString(): the canonical lower-case string.
ToObjectId(r) == 2 * ((r + 1) \div 2)

\* A lookup that takes every well-formed id for a user's.
UserFindByIdAny(r) == ToObjectId(r)

\* User.findById(id): the id is cast to an ObjectId before the lookup.
UserFindById(r) == IF ToObjectId(r) \in UserIds THEN ToObjectId(r) ELSE Null

\* [a, b].sort() on strings (default comparison), without the sort.
SortPairUnsorted(a, b) == <<a, b>>

\* [a, b].sort() on strings (default comparison).
SortPair(a, b) == IF a <= b THEN <<a, b>> ELSE <<b, a>>

\* The resolvers' key: [senderId, receiverId].map(id => id.toString()).sort().join('_')
\* (toString() of a string is the string itself; the joined key is kept as the pair).
LookupKey(senderId, receiverId) == SortPair(senderId, receiverId)

\* chatSchema.pre('validate'): participants are ObjectIds by then.
SchemaSorted(p1, p2) == SortPair(ToObjectId(p1), ToObjectId(p2))

SchemaKey(p1, p2) == SchemaSorted(p1, p2)

\* ------------------------------------------------------------- state
VARIABLES
    chats,      \* Chat collection: sequence of documents, _id = index
    messages,   \* Message collection: function from the existing _ids
    nextMsg,    \* next Message _id (ids of deleted messages are not reused)
    now,        \* the wall clock read by new Date() / Date.now
    procs,      \* the handler invocations and their positions
    emitted,    \* socket.io events emitted so far
    sockets,    \* the connections: user, lifecycle position, rooms
    activeUsers,\* the activeUsers map: userId -> socket id
    online      \* User.isOnline, as persisted

vars == <<chats, messages, nextMsg, now, procs, emitted, sockets, activeUsers, online>>

storeVars == <<chats, messages, nextMsg>>

presenceVars == <<sockets, activeUsers, online>>

Procs == 1..NumProcs

NoKey == <<Null, Null>>

IdleProc ==
    [op |-> "none", pc |-> "idle", user |-> Null, rid |-> Null, valid |-> TRUE,
     file |-> TRUE, key |-> NoKey, dup |-> FALSE, chat |-> Null, msg |-> Null,
     mid |-> Null, cid |-> Null, seen |-> Null, t |-> Null, res |-> "none",
     sock |-> Null, all |-> <<>>, i |-> 0, cleanup |-> {}]

ChatIds == DOMAIN chats

MsgIds == DOMAIN messages

\* Chat.findOne({ participantsKey }): first match in insertion order, or none.
ChatFindOneByKey(k) ==
    IF \E c \in ChatIds : chats[c].participantsKey = k
    THEN CHOOSE c \in ChatIds :
            /\ chats[c].participantsKey = k
            /\ \A d \in ChatIds : chats[d].participantsKey = k => c <= d
    ELSE Null

\* The unique index on participantsKey, dropped.
DuplicateKeyNoIndex(k) == FALSE

\* The unique index on participantsKey: an insert of a taken key fails (E11000).
DuplicateKey(k) == \E c \in ChatIds : chats[c].participantsKey = k

Finish(p, r) == [procs EXCEPT ![p].pc = "done", ![p].res = r]

\* ------------------------------------------------------- emits
Event(e, room, id) == [ev |-> e, to |-> room, id |-> id]

Range(s) == {s[j] : j \in DOMAIN s}

\* Every connection joined to one shared room: socket.join('user').
RecipientsSharedRoom(to) ==
    {s \in DOMAIN sockets :
        /\ sockets[s].st = "connected"
        /\ \/ to[1] = "user"
           \/ to[1] = "chat" /\ to[2] \in sockets[s].rooms
           \/ to[1] = "caller" /\ procs[to[2]].sock = s
           \/ to[1] = "socket" /\ to[2] = s}

(* The live sockets an emit reaches.  io.to(`user_${id}`): the sockets     *)
(* that joined that room on connection, named by the lower-case string of  *)
(* their user's _id.  io.to(`chat_${id}`): the sockets that joined the     *)
(* room by join_chat.  socket.emit: the handler's own socket.  A socket    *)
(* leaves every room when it disconnects.                                  *)
Recipients(to) ==
    {s \in DOMAIN sockets :
        /\ sockets[s].st = "connected"
        /\ \/ to[1] = "user" /\ sockets[s].user = to[2]
           \/ to[1] = "chat" /\ to[2] \in sockets[s].rooms
           \/ to[1] = "caller" /\ procs[to[2]].sock = s
           \/ to[1] = "socket" /\ to[2] = s}

RECURSIVE Deliver(_, _)
\* The sockets after the emits evs, one packet per emit and recipient.
Deliver(ss, evs) ==
    IF evs = <<>> THEN ss
    ELSE Deliver([s \in DOMAIN ss |->
                     IF s \in Recipients(Head(evs).to)
                     THEN [ss[s] EXCEPT !.inbox =
                              Append(@, [ev |-> Head(evs).ev, id |-> Head(evs).id])]
                     ELSE ss[s]],
                 Tail(evs))

\* The operations that send a message.
SendOps == {"send_message", "post_message", "upload"}

\* ------------------------------------------------- chat resolution
ResolveOps == {"send_message", "post_message", "upload", "chat_create"}

\* Whether every slot below p is in use (the slots are interchangeable).
SlotFree(p) ==
    /\ procs[p].pc = "idle"
    /\ \A q \in Procs : q < p => procs[q].pc # "idle"

\* The handler's locals when it reaches its first await.
Started(o, u, r, v, f) ==
    LET q == [IdleProc EXCEPT !.op = o, !.user = u, !.rid = r,
                              !.valid = v, !.file = f]
    IN  IF o = "post_message" /\ ~v
        THEN [q EXCEPT !.pc = "done", !.res = "validation_failed"]
        ELSE [q EXCEPT !.pc = "findReceiver"]

(* A client calls send_message, POST /api/messages, POST /upload or        *)
(* POST /chat/create as user u with receiverId r.  valid: the content       *)
(* passes the length / presence rules; file: the upload carries a file.    *)
(* express-validator rejects bad content of POST /api/messages at once.    *)
StartResolve(p, o, u, r, v, f) ==
    /\ SlotFree(p)
    /\ procs' = [procs EXCEPT ![p] = Started(o, u, r, v, f)]
    /\ UNCHANGED <<chats, messages, nextMsg, now, emitted, presenceVars>>

\* const receiver = await User.findById(receiverId); then the lookup key, or
\* the rejection: socket.emit('error', ...) on the socket path, a 404 on REST.
FindReceiver(p) ==
    /\ procs[p].pc = "findReceiver"
    /\ procs' = IF UserFindById(procs[p].rid) = Null
                THEN Finish(p, "receiver_not_found")
                ELSE [procs EXCEPT ![p].pc = "findChat",
                                   ![p].key = LookupKey(procs[p].user, procs[p].rid)]
    /\ LET reply == IF UserFindById(procs[p].rid) = Null /\ procs[p].op = "send_message"
                    THEN <<Event("error", <<"caller", p>>, Null)>> ELSE <<>>
       IN  /\ emitted' = emitted \cup Range(reply)
           /\ sockets' = Deliver(sockets, reply)
    /\ UNCHANGED <<chats, messages, nextMsg, now, activeUsers, online>>

\* The handler's position once `chat` is set.
AfterResolve(p, c, d) ==
    LET q == [procs[p] EXCEPT !.chat = c, !.dup = d]
    IN  IF q.op = "upload" /\ ~q.file
        THEN [q EXCEPT !.pc = "done", !.res = "no_file"]
        ELSE IF q.op = "chat_create"
        THEN [q EXCEPT !.pc = "populateChat"]
        ELSE [q EXCEPT !.pc = "saveMessage"]

\* let chat = await Chat.findOne({ participantsKey });
FindChat(p) ==
    /\ procs[p].pc = "findChat"
    /\ LET c == ChatFindOneByKey(procs[p].key)
       IN procs' = [procs EXCEPT ![p] =
                        IF c = Null THEN [procs[p] EXCEPT !.pc = "createChat"]
                        ELSE AfterResolve(p, c, FALSE)]
    /\ UNCHANGED <<chats, messages, nextMsg, now, emitted, presenceVars>>

\* The document chat.save() inserts: pre('validate') sorts the participants
\* and derives participantsKey; lastMessageAt defaults to Date.now.
NewChat(u, r) ==
    [participants |-> SchemaSorted(u, r), participantsKey |-> SchemaKey(u, r),
     lastMessage |-> Null, lastMessageAt |-> now, isActive |-> TRUE,
     createdAt |-> now]

\* chat = new Chat({ participants: [senderId, receiverId] }); await chat.save();
CreateChat(p) ==
    /\ procs[p].pc = "createChat"
    /\ LET doc == NewChat(procs[p].user, procs[p].rid)
       IN IF DuplicateKey(doc.participantsKey)
          THEN /\ procs' = [procs EXCEPT ![p].pc = "refindChat", ![p].dup = TRUE]
               /\ UNCHANGED chats
          ELSE /\ chats' = Append(chats, doc)
               /\ procs' = [procs EXCEPT ![p] = AfterResolve(p, Len(chats) + 1, FALSE)]
    /\ UNCHANGED <<messages, nextMsg, now, emitted, presenceVars>>

\* The catch block without the recovery: the duplicate-key error is re-thrown.
RefindChatRethrow(p) ==
    /\ procs[p].pc = "refindChat"
    /\ procs' = Finish(p, "error")
    /\ UNCHANGED <<chats, messages, nextMsg, now, emitted, presenceVars>>

\* catch (error.code === 11000): chat = await Chat.findOne({ participantsKey });
\* a null result is re-thrown (chat/create runs into chat.populate of null).
RefindChat(p) ==
    /\ procs[p].pc = "refindChat"
    /\ LET c == ChatFindOneByKey(procs[p].key)
       IN procs' = IF c = Null THEN Finish(p, "error")
                   ELSE [procs EXCEPT ![p] = AfterResolve(p, c, TRUE)]
    /\ UNCHANGED <<chats, messages, nextMsg, now, emitted, presenceVars>>

\* chat/create: await chat.populate("participants"); find the other participant.
PopulateChat(p) ==
    /\ procs[p].pc = "populateChat"
    /\ LET ps == chats[procs[p].chat].participants
       IN procs' = IF \E i \in 1..2 : ps[i] # procs[p].user
                   THEN Finish(p, "ok")
                   ELSE Finish(p, "error")
    /\ UNCHANGED <<chats, messages, nextMsg, now, emitted, presenceVars>>

\* ------------------------------------------------------------- send
\* await message.save() whose rejection is swallowed: the handler goes on.
SaveMessageIgnoringFailure(p) ==
    /\ procs[p].pc = "saveMessage"
    /\ IF ~procs[p].valid
       THEN /\ procs' = [procs EXCEPT ![p].pc = "saveChat"]
            /\ UNCHANGED <<messages, nextMsg>>
       ELSE /\ messages' = (nextMsg :>
                    [sender |-> procs[p].user, receiver |-> ToObjectId(procs[p].rid),
                     chatId |-> procs[p].chat, createdAt |-> now,
                     isRead |-> FALSE, readAt |-> Null]) @@ messages
            /\ nextMsg' = nextMsg + 1
            /\ procs' = [procs EXCEPT ![p].pc = "saveChat", ![p].msg = nextMsg,
                                      ![p].t = now]
    /\ UNCHANGED <<chats, now, emitted, presenceVars>>

\* await message.save(): schema validation of the content, then the insert.
SaveMessage(p) ==
    /\ procs[p].pc = "saveMessage"
    /\ IF ~procs[p].valid
       THEN /\ procs' = Finish(p, "error")
            /\ UNCHANGED <<messages, nextMsg>>
       ELSE /\ messages' = (nextMsg :>
                    [sender |-> procs[p].user, receiver |-> ToObjectId(procs[p].rid),
                     chatId |-> procs[p].chat, createdAt |-> now,
                     isRead |-> FALSE, readAt |-> Null]) @@ messages
            /\ nextMsg' = nextMsg + 1
            /\ procs' = [procs EXCEPT ![p].pc = "saveChat", ![p].msg = nextMsg,
                                      ![p].t = now]
    /\ UNCHANGED <<chats, now, emitted, presenceVars>>

\* chat.lastMessage = message._id; chat.lastMessageAt = new Date(); await chat.save();
\* the date is read when the handler resumes, the write lands now.
SaveChat(p) ==
    /\ procs[p].pc = "saveChat"
    /\ \E t \in procs[p].t..now :
          chats' = [chats EXCEPT ![procs[p].chat].lastMessage = procs[p].msg,
                                 ![procs[p].chat].lastMessageAt = t]
    /\ procs' = [procs EXCEPT ![p].pc = "emit"]
    /\ UNCHANGED <<messages, nextMsg, now, emitted, presenceVars>>

\* The emits of a completed send, in order, by path (POST /api/messages has none).
SendEvents(p) ==
    LET q == procs[p]
    IN  IF q.op = "send_message"
        THEN <<Event("new_message", <<"user", q.rid>>, q.msg),
               Event("message_sent", <<"caller", p>>, q.msg),
               Event("chat_message", <<"chat", q.chat>>, q.msg)>>
        ELSE IF q.op = "upload"
        THEN <<Event("new_message", <<"chat", q.chat>>, q.msg),
               Event("new_message", <<"user", q.rid>>, q.msg),
               Event("message_sent", <<"user", q.user>>, q.msg)>>
        ELSE <<>>

\* Emits that are given up, with an error, when the handler's socket has closed.
EmitSendIfConnected(p) ==
    /\ procs[p].pc = "emit"
    /\ procs[p].op \in {"send_message", "post_message", "upload"}
    /\ LET gone == procs[p].sock # Null /\ sockets[procs[p].sock].st # "connected"
           evs == IF gone THEN <<>> ELSE SendEvents(p)
       IN  /\ emitted' = emitted \cup Range(evs)
           /\ sockets' = Deliver(sockets, evs)
           /\ procs' = Finish(p, IF gone THEN "error" ELSE "ok")
    /\ UNCHANGED <<chats, messages, nextMsg, now, activeUsers, online>>

\* after the two populate awaits: format, emit, respond.
EmitSend(p) ==
    /\ procs[p].pc = "emit"
    /\ procs[p].op \in {"send_message", "post_message", "upload"}
    /\ emitted' = emitted \cup Range(SendEvents(p))
    /\ sockets' = Deliver(sockets, SendEvents(p))
    /\ procs' = Finish(p, "ok")
    /\ UNCHANGED <<chats, messages, nextMsg, now, activeUsers, online>>


\* ----------------------------------------------------------- delete
DeleteOps == {"delete_message", "delete_rest"}

\* message.sender.toString() !== userId, with the comparison dropped.
IsSenderUnchecked(m, u) == TRUE

\* message.sender.toString() === userId: only the original sender may delete.
IsSender(m, u) == messages[m].sender = u

\* populate("lastMessage") that keeps the stored reference of a missing document.
PopulateKeepsRef(ref) == ref

\* populate("lastMessage"): the referenced document, null when it does not exist.
PopulateLastMessage(ref) == IF ref \in MsgIds THEN ref ELSE Null

\* Message.find({ chatId }).sort({ createdAt: -1 }).limit(1): the candidates
\* (documents of equal createdAt come in an order the store does not fix).
LatestOf(c) ==
    {m \in MsgIds : /\ messages[m].chatId = c
                    /\ \A n \in MsgIds : messages[n].chatId = c =>
                            messages[n].createdAt <= messages[m].createdAt}

(* A client calls delete_message {messageId: m, chatId: c} or              *)
(* DELETE /api/messages/m as user u (the REST path takes no chatId).       *)
StartDelete(p, o, u, m, c) ==
    /\ SlotFree(p)
    /\ procs' = [procs EXCEPT ![p] =
                    [IdleProc EXCEPT !.op = o, !.user = u, !.mid = m, !.cid = c,
                                     !.pc = "findMessage"]]
    /\ UNCHANGED <<chats, messages, nextMsg, now, emitted, presenceVars>>

\* const message = await Message.findById(id); the not-found and sender checks.
\* The REST path takes chatId from the message.
DeleteFindMessage(p) ==
    /\ procs[p].pc = "findMessage"
    /\ LET m == procs[p].mid
       IN procs' =
            IF m \notin MsgIds THEN Finish(p, "message_not_found")
            ELSE IF ~IsSender(m, procs[p].user) THEN Finish(p, "not_authorized")
            ELSE [procs EXCEPT ![p].pc = "deleteMessage",
                               ![p].rid = messages[m].receiver,
                               ![p].chat = messages[m].chatId,
                               ![p].cid = IF procs[p].op = "delete_rest"
                                          THEN messages[m].chatId ELSE procs[p].cid]
    /\ UNCHANGED <<chats, messages, nextMsg, now, emitted, presenceVars>>

\* await Message.deleteOne({ _id: id, chatId }): no match under another chat's id.
DeleteMessageInChat(p) ==
    /\ procs[p].pc = "deleteMessage"
    /\ messages' = IF procs[p].cid = procs[p].chat
                   THEN [m \in MsgIds \ {procs[p].mid} |-> messages[m]]
                   ELSE messages
    /\ procs' = [procs EXCEPT ![p].pc = "findChatById"]
    /\ UNCHANGED <<chats, nextMsg, now, emitted, presenceVars>>

\* await Message.deleteOne({ _id: id });
DeleteMessage(p) ==
    /\ procs[p].pc = "deleteMessage"
    /\ messages' = [m \in MsgIds \ {procs[p].mid} |-> messages[m]]
    /\ procs' = [procs EXCEPT ![p].pc = "findChatById"]
    /\ UNCHANGED <<chats, nextMsg, now, emitted, presenceVars>>

\* const chat = await Chat.findById(chatId) ... : the find of the query.
DeleteFindChat(p) ==
    /\ procs[p].pc = "findChatById"
    /\ procs' = IF procs[p].cid \in ChatIds
                THEN [procs EXCEPT ![p].pc = "populateLast",
                                   ![p].seen = chats[procs[p].cid].lastMessage]
                ELSE [procs EXCEPT ![p].pc = "emitDeleted"]
    /\ UNCHANGED <<chats, messages, nextMsg, now, emitted, presenceVars>>

(* ... .populate("lastMessage"), then                                      *)
(*   if (chat && chat.lastMessage && chat.lastMessage._id.toString() === id)*)
(*     latest = await Message.find({chatId}).sort({createdAt:-1}).limit(1) *)
(*     chat.lastMessage / lastMessageAt = latest or null; await chat.save()*)
DeleteUpdateLastMessage(p) ==
    /\ procs[p].pc \in {"populateLast", "queryLatest", "savePointer"}
    /\ IF procs[p].pc = "populateLast"
       THEN /\ procs' = [procs EXCEPT ![p].pc =
                            IF /\ PopulateLastMessage(procs[p].seen) # Null
                               /\ PopulateLastMessage(procs[p].seen) = procs[p].mid
                            THEN "queryLatest" ELSE "emitDeleted"]
            /\ UNCHANGED chats
       ELSE IF procs[p].pc = "queryLatest"
       THEN /\ IF LatestOf(procs[p].cid) = {}
               THEN procs' = [procs EXCEPT ![p].pc = "savePointer",
                                           ![p].msg = Null, ![p].t = Null]
               ELSE \E m \in LatestOf(procs[p].cid) :
                       procs' = [procs EXCEPT ![p].pc = "savePointer", ![p].msg = m,
                                              ![p].t = messages[m].createdAt]
            /\ UNCHANGED chats
       ELSE /\ chats' = [chats EXCEPT ![procs[p].cid].lastMessage = procs[p].msg,
                                      ![procs[p].cid].lastMessageAt = procs[p].t]
            /\ procs' = [procs EXCEPT ![p].pc = "emitDeleted"]
    /\ UNCHANGED <<messages, nextMsg, now, emitted, presenceVars>>

\* The message_deleted events: the socket path tells the room, the receiver's
\* personal room and the calling socket; the REST path tells the room.
DeleteEvents(p) ==
    LET q == procs[p]
    IN  IF q.op = "delete_message"
        THEN <<Event("message_deleted", <<"chat", q.cid>>, q.mid),
               Event("message_deleted", <<"user", q.rid>>, q.mid),
               Event("message_deleted", <<"caller", p>>, q.mid)>>
        ELSE <<Event("message_deleted", <<"chat", q.cid>>, q.mid)>>

EmitDeleted(p) ==
    /\ procs[p].pc = "emitDeleted"
    /\ emitted' = emitted \cup Range(DeleteEvents(p))
    /\ sockets' = Deliver(sockets, DeleteEvents(p))
    /\ procs' = Finish(p, "ok")
    /\ UNCHANGED <<chats, messages, nextMsg, now, activeUsers, online>>

\* ------------------------------------------------- mark_message_read
\* findByIdAndUpdate with { upsert: true }.
MarkedUpsert(m, t) ==
    IF m \in MsgIds
    THEN [messages EXCEPT ![m].isRead = TRUE, ![m].readAt = t]
    ELSE (m :> [sender |-> Null, receiver |-> Null, chatId |-> Null,
                createdAt |-> t, isRead |-> TRUE, readAt |-> t]) @@ messages

\* Message.findByIdAndUpdate(messageId, { isRead: true, readAt }, { new: true }):
\* the collection afterwards; a missing document is not created.
Marked(m, t) ==
    IF m \in MsgIds
    THEN [messages EXCEPT ![m].isRead = TRUE, ![m].readAt = t]
    ELSE messages

\* A client calls mark_message_read {messageId: m}; new Date() is read here.
StartMarkRead(p, u, m) ==
    /\ SlotFree(p)
    /\ procs' = [procs EXCEPT ![p] =
                    [IdleProc EXCEPT !.op = "mark_message_read", !.user = u,
                                     !.mid = m, !.t = now, !.pc = "updateRead"]]
    /\ UNCHANGED <<chats, messages, nextMsg, now, emitted, presenceVars>>

\* const message = await Message.findByIdAndUpdate(...); if (message) emit.
MarkReadUpdate(p) ==
    /\ procs[p].pc = "updateRead"
    /\ messages' = Marked(procs[p].mid, procs[p].t)
    /\ procs' = IF procs[p].mid \in DOMAIN messages'
                THEN [procs EXCEPT ![p].pc = "emitRead",
                                   ![p].rid = messages'[procs[p].mid].sender]
                ELSE Finish(p, "ok")
    /\ UNCHANGED <<chats, nextMsg, now, emitted, presenceVars>>

\* io.to(`user_${message.sender}`).emit('message_read', ...)
EmitRead(p) ==
    /\ procs[p].pc = "emitRead"
    /\ emitted' = emitted \cup {Event("message_read", <<"user", procs[p].rid>>, procs[p].mid)}
    /\ sockets' = Deliver(sockets, <<Event("message_read", <<"user", procs[p].rid>>, procs[p].mid)>>)
    /\ procs' = Finish(p, "ok")
    /\ UNCHANGED <<chats, messages, nextMsg, now, activeUsers, online>>

\* ------------------------------------------------------------ clock
Tick ==
    /\ now < MaxTime
    /\ now' = now + 1
    /\ UNCHANGED <<chats, messages, nextMsg, procs, emitted, presenceVars>>

\* --------------------------------------------------------- presence
Sockets == 1..NumSockets

\* rooms: the chat rooms the socket joined; inbox: the message events it received.
UnusedSocket ==
    [user |-> Null, st |-> "unused", pending |-> FALSE, rooms |-> {}, inbox |-> <<>>]

\* io.on('connection'): activeUsers.set(userId, ...) overwrites the user's
\* entry; the isOnline write is issued and not awaited; user_online is
\* broadcast to the other sockets.
Connect(s, u) ==
    /\ sockets[s].st = "unused"
    /\ \A r \in Sockets : r < s => sockets[r].st # "unused"
    /\ sockets' = [sockets EXCEPT ![s] = [UnusedSocket EXCEPT !.user = u, !.st = "connected",
                                                             !.pending = TRUE]]
    /\ activeUsers' = [activeUsers EXCEPT ![u] = s]
    /\ emitted' = emitted \cup {Event("user_online", <<"broadcast", s>>, u)}
    /\ UNCHANGED <<chats, messages, nextMsg, now, procs, online>>

\* User.findByIdAndUpdate(userId, { isOnline: true }).exec() reaches the store.
ConnectWrite(s) ==
    /\ sockets[s].pending
    /\ sockets' = [sockets EXCEPT ![s].pending = FALSE]
    /\ online' = [online EXCEPT ![sockets[s].user] = TRUE]
    /\ UNCHANGED <<chats, messages, nextMsg, now, procs, emitted, activeUsers>>

\* activeUsers.delete(userId), whichever socket the entry names.
AfterDelete(u) == [activeUsers EXCEPT ![u] = Null]

\* socket.on('disconnect'), up to its await.
Disconnect(s) ==
    /\ sockets[s].st = "connected"
    /\ sockets' = [sockets EXCEPT ![s].st = "disconnecting"]
    /\ activeUsers' = AfterDelete(sockets[s].user)
    /\ UNCHANGED <<chats, messages, nextMsg, now, procs, emitted, online>>

\* await User.findByIdAndUpdate(userId, { isOnline: false }) reaches the store.
DisconnectWrite(s) ==
    /\ sockets[s].st = "disconnecting"
    /\ sockets' = [sockets EXCEPT ![s].st = "written"]
    /\ online' = [online EXCEPT ![sockets[s].user] = FALSE]
    /\ UNCHANGED <<chats, messages, nextMsg, now, procs, emitted, activeUsers>>

\* socket.broadcast.emit('user_offline', ...)
DisconnectEmit(s) ==
    /\ sockets[s].st = "written"
    /\ sockets' = [sockets EXCEPT ![s].st = "closed"]
    /\ emitted' = emitted \cup {Event("user_offline", <<"broadcast", s>>, sockets[s].user)}
    /\ UNCHANGED <<chats, messages, nextMsg, now, procs, activeUsers, online>>

\* ------------------------------------------------------ initial states
InitRuntime ==
    /\ procs = [p \in Procs |-> IdleProc]
    /\ emitted = {}
    /\ sockets = [s \in Sockets |-> UnusedSocket]
    /\ activeUsers = [u \in UserIds |-> Null]
    /\ online = [u \in UserIds |-> FALSE]

\* The server right after start, on an empty store.
InitFresh ==
    /\ chats = <<>>
    /\ messages = <<>>
    /\ nextMsg = 1
    /\ now = 1
    /\ InitRuntime

SeedA == Lower(1)

SeedB == Lower(2)

(* A quiescent store that POST /chat/create and n POST /api/messages       *)
(* between users SeedA and SeedB, one per clock tick, leave behind: one    *)
(* chat, its messages 1..n, the pointer on message n.                      *)
SeededChat(n) ==
    [participants |-> <<SeedA, SeedB>>, participantsKey |-> <<SeedA, SeedB>>,
     lastMessage |-> n, lastMessageAt |-> IF n = 0 THEN 1 ELSE n,
     isActive |-> TRUE, createdAt |-> 1]

SeededMessages(n, f) ==
    [i \in 1..n |->
        [sender |-> f[i], receiver |-> IF f[i] = SeedA THEN SeedB ELSE SeedA,
         chatId |-> 1, createdAt |-> i, isRead |-> FALSE, readAt |-> Null]]

SeededStore ==
    \E n \in 0..MaxSeed : \E f \in [1..n -> {SeedA, SeedB}] :
          /\ chats = <<SeededChat(n)>>
          /\ messages = SeededMessages(n, f)
          /\ nextMsg = n + 1
          /\ now = IF n = 0 THEN 1 ELSE n

InitSeeded == SeededStore /\ InitRuntime

\* ------------------------------------------------------ specifications
ResolveStep(p) ==
    \/ FindReceiver(p)
    \/ FindChat(p)
    \/ CreateChat(p)
    \/ RefindChat(p)
    \/ PopulateChat(p)
    \/ SaveMessage(p)
    \/ SaveChat(p)
    \/ EmitSend(p)

\* Concurrent chat resolutions on all four paths, from an empty store.
NextResolve ==
    \/ \E p \in Procs, o \in ResolveOps, u \in UserIds, r \in RawIds :
          \E f \in (IF o = "upload" THEN BOOLEAN ELSE {TRUE}) :
                StartResolve(p, o, u, r, TRUE, f)
    \/ \E p \in Procs : ResolveStep(p)
    \/ Tick

SpecResolve == InitFresh /\ [][NextResolve]_vars

\* A well-formed chat id of no chat (at most NumProcs chats join the seeded one).
UnknownChat == NumProcs + 2

StartLifecycle(p) ==
    \/ \E o \in {"send_message", "post_message"}, u \in UserIds, r \in RawIds :
          StartResolve(p, o, u, r, TRUE, TRUE)
    \/ \E u \in UserIds, m \in 1..(nextMsg - 1) :
          \/ \E c \in ChatIds \cup {UnknownChat} : StartDelete(p, "delete_message", u, m, c)
          \/ StartDelete(p, "delete_rest", u, m, Null)
          \/ StartMarkRead(p, u, m)

LifecycleStep(p) ==
    \/ FindReceiver(p)
    \/ FindChat(p)
    \/ CreateChat(p)
    \/ RefindChat(p)
    \/ SaveMessage(p)
    \/ SaveChat(p)
    \/ EmitSend(p)
    \/ DeleteFindMessage(p)
    \/ DeleteMessage(p)
    \/ DeleteFindChat(p)
    \/ DeleteUpdateLastMessage(p)
    \/ EmitDeleted(p)
    \/ MarkReadUpdate(p)
    \/ EmitRead(p)

\* Sends, deletes and read marks running concurrently on a seeded store.
NextLifecycle ==
    \/ \E p \in Procs : StartLifecycle(p)
    \/ \E p \in Procs : LifecycleStep(p)
    \/ Tick

SpecLifecycle == InitSeeded /\ [][NextLifecycle]_vars

Quiescent == \A p \in Procs : procs[p].pc \in {"idle", "done"}

\* The same handlers, one at a time: a handler starts when none is in flight.
NextSequential ==
    \/ \E p \in Procs : Quiescent /\ StartLifecycle(p)
    \/ \E p \in Procs : LifecycleStep(p)
    \/ Tick

SpecSequential == InitSeeded /\ [][NextSequential]_vars

\* Connections opening and closing.
NextPresence ==
    \/ \E s \in Sockets, u \in UserIds : Connect(s, u)
    \/ \E s \in Sockets : ConnectWrite(s)
    \/ \E s \in Sockets : Disconnect(s)
    \/ \E s \in Sockets : DisconnectWrite(s)
    \/ \E s \in Sockets : DisconnectEmit(s)

SpecPresence == InitFresh /\ [][NextPresence]_vars

\* ------------------------------------------- reconciliation sweep
\* populate("participants") yields null for a participant that no longer exists.
Orphaned(c) == \E j \in 1..2 : chats[c].participants[j] \notin UserIds

\* a.lastMessageAt || a.createdAt || 0
TimeOf(d) == IF d.lastMessageAt # Null THEN d.lastMessageAt ELSE d.createdAt

RECURSIVE Ascending(_)
\* The documents of a find without a sort, in insertion order.
Ascending(S) ==
    IF S = {} THEN <<>>
    ELSE LET c == CHOOSE x \in S : \A y \in S : x <= y
         IN  <<c>> \o Ascending(S \ {c})

\* One chat of allChats, as the sweep reads it.
SweepDoc(c) ==
    [id |-> c, key |-> chats[c].participantsKey, time |-> TimeOf(chats[c]),
     orphan |-> Orphaned(c)]

\* await Chat.find({ isActive: true }).populate(...)
FindAllActive ==
    LET a == Ascending({c \in ChatIds : chats[c].isActive})
    IN  [j \in 1..Len(a) |-> SweepDoc(a[j])]

RECURSIVE GroupKeys(_)
\* The keys of the duplicateChats Map, in insertion order.
GroupKeys(all) ==
    IF all = <<>> THEN <<>>
    ELSE LET rest == GroupKeys(SubSeq(all, 1, Len(all) - 1))
             d == all[Len(all)]
         IN  IF d.orphan \/ \E j \in 1..Len(rest) : rest[j] = d.key
             THEN rest ELSE Append(rest, d.key)

RECURSIVE ByTimeAscending(_)
\* chats.sort((a, b) => aTime - bTime): the oldest chat first.
ByTimeAscending(s) ==
    IF s = <<>> THEN <<>>
    ELSE LET front == ByTimeAscending(SubSeq(s, 1, Len(s) - 1))
             d == s[Len(s)]
             n == Cardinality({j \in 1..Len(front) : front[j].time <= d.time})
         IN  SubSeq(front, 1, n) \o <<d>> \o SubSeq(front, n + 1, Len(front))

RECURSIVE ByTimeDescending(_)
\* chats.sort((a, b) => bTime - aTime): a stable sort, the most recent chat first.
ByTimeDescending(s) ==
    IF s = <<>> THEN <<>>
    ELSE LET front == ByTimeDescending(SubSeq(s, 1, Len(s) - 1))
             d == s[Len(s)]
             n == Cardinality({j \in 1..Len(front) : front[j].time >= d.time})
         IN  SubSeq(front, 1, n) \o <<d>> \o SubSeq(front, n + 1, Len(front))

\* The groups of more than one chat, each sorted, in the Map's order.
DuplicateGroups(all) ==
    LET ks == GroupKeys(all)
        gs == [j \in 1..Len(ks) |->
                  ByTimeDescending(SelectSeq(all, LAMBDA d : ~d.orphan /\ d.key = ks[j]))]
    IN  SelectSeq(gs, LAMBDA g : Len(g) > 1)

\* chats.slice(1).map(chat => chat._id)
DuplicateChatIds(g) == {g[j].id : j \in 2..Len(g)}

\* chatsToDeactivate: the orphaned chats and every group's duplicates.
ChatsToDeactivate(all) ==
    {all[j].id : j \in {k \in 1..Len(all) : all[k].orphan}}
        \cup UNION {DuplicateChatIds(DuplicateGroups(all)[j]) :
                        j \in 1..Len(DuplicateGroups(all))}

\* Chat.updateMany({ _id: { $in: ids } }, { isActive: false, lastMessage: null })
DeactivatedAndCleared(ids) ==
    [c \in ChatIds |-> IF c \in ids
                       THEN [chats[c] EXCEPT !.isActive = FALSE, !.lastMessage = Null]
                       ELSE chats[c]]

\* Chat.updateMany({ _id: { $in: ids } }, { isActive: false })
Deactivated(ids) ==
    [c \in ChatIds |-> IF c \in ids THEN [chats[c] EXCEPT !.isActive = FALSE]
                       ELSE chats[c]]

\* Where the sweep stops next after merging n groups of the snapshot all.
SweepResume(p, all, n) ==
    IF n < Len(DuplicateGroups(all))
    THEN [procs EXCEPT ![p].all = all, ![p].i = n, ![p].pc = "merge"]
    ELSE IF ChatsToDeactivate(all) # {}
    THEN [procs EXCEPT ![p].all = all, ![p].i = n, ![p].pc = "deactivate"]
    ELSE [procs EXCEPT ![p].all = all, ![p].i = n, ![p].pc = "done", ![p].res = "ok"]

\* A client calls POST /chats/cleanup.
StartSweep(p) ==
    /\ SlotFree(p)
    /\ procs' = [procs EXCEPT ![p] = [IdleProc EXCEPT !.op = "sweep", !.pc = "findAll"]]
    /\ UNCHANGED <<chats, messages, nextMsg, now, emitted, presenceVars>>

\* The find settles; the grouping runs up to the first await behind it.
SweepFind(p) ==
    /\ procs[p].pc = "findAll"
    /\ procs' = SweepResume(p, FindAllActive, 0)
    /\ UNCHANGED <<chats, messages, nextMsg, now, emitted, presenceVars>>

\* await Message.updateMany({}, { chatId: keepChat._id }): no filter on the chat.
SweepMergeAll(p) ==
    /\ procs[p].pc = "merge"
    /\ LET g == DuplicateGroups(procs[p].all)[procs[p].i + 1]
       IN  messages' = [m \in MsgIds |-> [messages[m] EXCEPT !.chatId = g[1].id]]
    /\ procs' = SweepResume(p, procs[p].all, procs[p].i + 1)
    /\ UNCHANGED <<chats, nextMsg, now, emitted, presenceVars>>

\* await Message.updateMany({ chatId: { $in: duplicateChatIds } }, { chatId: keepChat._id })
SweepMerge(p) ==
    /\ procs[p].pc = "merge"
    /\ LET g == DuplicateGroups(procs[p].all)[procs[p].i + 1]
       IN  messages' = [m \in MsgIds |->
                           IF messages[m].chatId \in DuplicateChatIds(g)
                           THEN [messages[m] EXCEPT !.chatId = g[1].id]
                           ELSE messages[m]]
    /\ procs' = SweepResume(p, procs[p].all, procs[p].i + 1)
    /\ UNCHANGED <<chats, nextMsg, now, emitted, presenceVars>>

\* await Chat.updateMany({ _id: { $in: chatsToDeactivate } }, { isActive: false })
SweepDeactivate(p) ==
    /\ procs[p].pc = "deactivate"
    /\ chats' = Deactivated(ChatsToDeactivate(procs[p].all))
    /\ procs' = Finish(p, "ok")
    /\ UNCHANGED <<messages, nextMsg, now, emitted, presenceVars>>

\* ------------------------------------------------ chat list cleanup
\* The participant of chat c that exists and is not user u, if any.
OtherParticipant(c, u) ==
    LET ps == chats[c].participants
    IN  IF ps[1] \in UserIds /\ ps[1] # u THEN ps[1]
        ELSE IF ps[2] \in UserIds /\ ps[2] # u THEN ps[2]
        ELSE Null

\* One chat of the list query: lastMessage is populated, time is the sort key.
ListDoc(c, u) ==
    LET m == PopulateLastMessage(chats[c].lastMessage)
    IN  [id |-> c, time |-> chats[c].lastMessageAt, other |-> OtherParticipant(c, u),
         msgTime |-> IF m = Null THEN Null ELSE messages[m].createdAt,
         createdAt |-> chats[c].createdAt]

\* await Chat.find({ participants: u, isActive: true }) ... .sort({ lastMessageAt: -1 })
FindChatsOf(u) ==
    LET a == Ascending({c \in ChatIds : /\ chats[c].isActive
                                        /\ \E j \in 1..2 : chats[c].participants[j] = u})
    IN  ByTimeDescending([j \in 1..Len(a) |-> ListDoc(a[j], u)])

\* userChatMap.has(userId) is false.
NotInMap == -1

RECURSIVE ChatsToCleanup(_, _, _)
(* The loop over the chats: map holds, for each other user already seen,   *)
(* the lastMessage timestamp of the chat kept for them.  The kept entry    *)
(* has no createdAt, so a kept chat without a last message counts as 0.    *)
ChatsToCleanup(s, map, acc) ==
    IF s = <<>> THEN acc
    ELSE LET d == Head(s)
             current == IF d.msgTime # Null THEN d.msgTime ELSE d.createdAt
         IN  IF d.other = Null
             THEN ChatsToCleanup(Tail(s), map, acc \cup {d.id})
             ELSE IF map[d.other] = NotInMap \/ current > map[d.other]
             THEN ChatsToCleanup(Tail(s), [map EXCEPT ![d.other] = d.msgTime], acc)
             ELSE ChatsToCleanup(Tail(s), map, acc \cup {d.id})

\* A client calls GET /chats/list as user u.
StartList(p, u) ==
    /\ SlotFree(p)
    /\ procs' = [procs EXCEPT ![p] =
                    [IdleProc EXCEPT !.op = "chats_list", !.user = u, !.pc = "findChats"]]
    /\ UNCHANGED <<chats, messages, nextMsg, now, emitted, presenceVars>>

\* The query settles; the loop runs and the response is sent.
ListFind(p) ==
    /\ procs[p].pc = "findChats"
    /\ LET cs == ChatsToCleanup(FindChatsOf(procs[p].user),
                                [u \in UserIds |-> NotInMap], {})
       IN  procs' = IF cs = {} THEN Finish(p, "ok")
                    ELSE [procs EXCEPT ![p].cleanup = cs, ![p].pc = "cleanup"]
    /\ UNCHANGED <<chats, messages, nextMsg, now, emitted, presenceVars>>

\* setImmediate: await Chat.updateMany({ _id: { $in: chatsToCleanup } }, { isActive: false })
ListCleanup(p) ==
    /\ procs[p].pc = "cleanup"
    /\ chats' = Deactivated(procs[p].cleanup)
    /\ procs' = Finish(p, "ok")
    /\ UNCHANGED <<messages, nextMsg, now, emitted, presenceVars>>

\* --------------------------------------------- stores with duplicates
\* The participants a legacy chat may have: the seeded pair, or SeedA and a
\* user that was removed since.
LegacyPairs == {<<SeedA, SeedB>>, <<SeedA, UnknownId>>}

\* The latest of the messages 1..k that owner assigns to chat c, or Null.
LastOwned(owner, k, c) ==
    IF \E i \in 1..k : owner[i] = c
    THEN CHOOSE i \in 1..k : owner[i] = c /\ \A j \in 1..k : owner[j] = c => j <= i
    ELSE Null

(* A quiescent store written before participantsKey had its unique index:  *)
(* n active chats, several of which may share a pair key, and k messages   *)
(* (message i sent at time i by SeedA), each in one chat; every chat's     *)
(* pointer is on its latest message and no chat is younger than a message  *)
(* it holds.                                                               *)
InitLegacy ==
    /\ \E n \in 2..MaxChats, k \in 0..MaxSeed :
       \E pair \in [1..n -> LegacyPairs], born \in [1..n -> 1..MaxTime],
          owner \in [1..k -> 1..n] :
          /\ \A i \in 1..k : born[owner[i]] <= i
          /\ chats = [c \in 1..n |->
                        [participants |-> pair[c], participantsKey |-> pair[c],
                         lastMessage |-> LastOwned(owner, k, c),
                         lastMessageAt |-> IF LastOwned(owner, k, c) = Null THEN born[c]
                                           ELSE LastOwned(owner, k, c),
                         isActive |-> TRUE, createdAt |-> born[c]]]
          /\ messages = [i \in 1..k |->
                            [sender |-> SeedA, receiver |-> pair[owner[i]][2],
                             chatId |-> owner[i], createdAt |-> i,
                             isRead |-> FALSE, readAt |-> Null]]
          /\ nextMsg = k + 1
          /\ now = IF k > MaxTime THEN k ELSE MaxTime
    /\ InitRuntime

SweepStep(p) ==
    \/ SweepFind(p)
    \/ SweepMerge(p)
    \/ SweepDeactivate(p)
    \/ ListFind(p)
    \/ ListCleanup(p)

\* Sweeps and chat-list requests running concurrently on a legacy store.
NextSweep ==
    \/ \E p \in Procs : StartSweep(p)
    \/ \E p \in Procs, u \in UserIds : StartList(p, u)
    \/ \E p \in Procs : SweepStep(p)

SpecSweep == InitLegacy /\ [][NextSweep]_vars

\* The same requests, one at a time.
NextSweepSequential ==
    \/ \E p \in Procs : Quiescent /\ StartSweep(p)
    \/ \E p \in Procs, u \in UserIds : Quiescent /\ StartList(p, u)
    \/ \E p \in Procs : SweepStep(p)

SpecSweepSequential == InitLegacy /\ [][NextSweepSequential]_vars

\* ----------------------------------------------------- chat rooms
\* Chat.findOne({ _id: chatId }): membership and the active flag not asked for.
JoinAllowedUnchecked(c, u) == c \in ChatIds

\* Chat.findOne({ _id: chatId, participants: socket.userId, isActive: true })
JoinAllowed(c, u) ==
    /\ c \in ChatIds
    /\ chats[c].isActive
    /\ \E j \in 1..2 : chats[c].participants[j] = u

\* Socket s emits join_chat { chatId: c }.
StartJoin(p, s, c) ==
    /\ SlotFree(p)
    /\ sockets[s].st = "connected"
    /\ procs' = [procs EXCEPT ![p] =
                    [IdleProc EXCEPT !.op = "join_chat", !.user = sockets[s].user,
                                     !.sock = s, !.cid = c, !.pc = "findJoin"]]
    /\ UNCHANGED <<chats, messages, nextMsg, now, emitted, presenceVars>>

\* The findOne settles: the error reply, or socket.join and the joined_chat reply.
JoinChat(p) ==
    /\ procs[p].pc = "findJoin"
    /\ LET q == procs[p]
           ok == JoinAllowed(q.cid, q.user)
           reply == Event(IF ok THEN "joined_chat" ELSE "error", <<"caller", p>>, q.cid)
           joined == IF ok THEN [sockets EXCEPT ![q.sock].rooms = @ \cup {q.cid}]
                     ELSE sockets
       IN  /\ emitted' = emitted \cup {reply}
           /\ sockets' = Deliver(joined, <<reply>>)
           /\ procs' = Finish(p, IF ok THEN "ok" ELSE "not_authorized")
    /\ UNCHANGED <<chats, messages, nextMsg, now, activeUsers, online>>

\* socket.on('leave_chat'): socket.leave and the left_chat reply, no await.
LeaveChat(s, c) ==
    /\ sockets[s].st = "connected"
    /\ c \in sockets[s].rooms
    /\ emitted' = emitted \cup {Event("left_chat", <<"socket", s>>, c)}
    /\ sockets' = Deliver([sockets EXCEPT ![s].rooms = @ \ {c}],
                          <<Event("left_chat", <<"socket", s>>, c)>>)
    /\ UNCHANGED <<chats, messages, nextMsg, now, procs, activeUsers, online>>

\* Socket s emits send_message { receiverId: r, content }.
StartSocketSend(p, s, r, v) ==
    /\ SlotFree(p)
    /\ sockets[s].st = "connected"
    /\ procs' = [procs EXCEPT ![p] =
                    [Started("send_message", sockets[s].user, r, v, TRUE)
                        EXCEPT !.sock = s]]
    /\ UNCHANGED <<chats, messages, nextMsg, now, emitted, presenceVars>>

\* ------------------------------------------- stores with sessions
\* The user of the s-th session opened: SeedA and SeedB take turns.
SessionUser(s) == IF s % 2 = 1 THEN SeedA ELSE SeedB

(* The chat SeedA made with themselves by POST /chat/create, which their   *)
(* next GET /chats/list deactivated (it has no other participant).         *)
InactiveSelfChat ==
    [participants |-> <<SeedA, SeedA>>, participantsKey |-> <<SeedA, SeedA>>,
     lastMessage |-> Null, lastMessageAt |-> 1, isActive |-> FALSE, createdAt |-> 1]

(* The seeded store with that chat added and n sessions open, their        *)
(* presence writes settled: the registry names each user's latest socket.  *)
InitDelivery ==
    /\ \E k \in 0..MaxSeed : \E g \in [1..k -> {SeedA, SeedB}] :
          /\ chats = <<SeededChat(k), InactiveSelfChat>>
          /\ messages = SeededMessages(k, g)
          /\ nextMsg = k + 1
          /\ now = IF k = 0 THEN 1 ELSE k
    /\ procs = [p \in Procs |-> IdleProc]
    /\ \E n \in 1..NumSockets : \E f \in {[s \in 1..n |-> SessionUser(s)]} :
          /\ sockets = [s \in Sockets |->
                           IF s <= n
                           THEN [UnusedSocket EXCEPT !.user = f[s], !.st = "connected"]
                           ELSE UnusedSocket]
          /\ activeUsers = [u \in UserIds |->
                               IF \E s \in 1..n : f[s] = u
                               THEN CHOOSE s \in 1..n :
                                       f[s] = u /\ \A r \in 1..n : f[r] = u => r <= s
                               ELSE Null]
          /\ online = [u \in UserIds |-> \E s \in 1..n : f[s] = u]
          /\ emitted = {Event("user_online", <<"broadcast", s>>, f[s]) : s \in 1..n}

StartDelivery(p) ==
    \/ \E s \in Sockets, c \in 1..(Len(chats) + 1) : StartJoin(p, s, c)
    \/ \E s \in Sockets, r \in RawIds, v \in BOOLEAN : StartSocketSend(p, s, r, v)
    \/ \E u \in UserIds, r \in UserIds : StartResolve(p, "upload", u, r, TRUE, TRUE)

DeliveryStep(p) ==
    \/ JoinChat(p)
    \/ FindReceiver(p)
    \/ FindChat(p)
    \/ CreateChat(p)
    \/ RefindChat(p)
    \/ SaveMessage(p)
    \/ SaveChat(p)
    \/ EmitSend(p)

\* Sessions joining and leaving rooms and sending, concurrently.
NextDelivery ==
    \/ \E p \in Procs : StartDelivery(p)
    \/ \E p \in Procs : DeliveryStep(p)
    \/ \E s \in Sockets, c \in ChatIds : LeaveChat(s, c)

SpecDelivery == InitDelivery /\ [][NextDelivery]_vars

\* ------------------------------------- sends on closing connections
DisconnectStep(p) ==
    \/ FindReceiver(p)
    \/ FindChat(p)
    \/ CreateChat(p)
    \/ RefindChat(p)
    \/ SaveMessage(p)
    \/ SaveChat(p)
    \/ EmitSend(p)

\* A handler started on socket s has not finished.
InFlightOn(s) == \E p \in Procs : procs[p].sock = s /\ procs[p].pc # "done"

\* Sessions sending, and closing their connection before the send is over.
NextDisconnect ==
    \/ \E p \in Procs, s \in Sockets, r \in RawIds : StartSocketSend(p, s, r, TRUE)
    \/ \E p \in Procs : DisconnectStep(p)
    \/ \E s \in Sockets : InFlightOn(s) /\ Disconnect(s)
    \/ \E s \in Sockets : DisconnectWrite(s)
    \/ \E s \in Sockets : DisconnectEmit(s)

SpecDisconnect == InitDelivery /\ [][NextDisconnect]_vars

\* ------------------------------------- live traffic under maintenance
StartMaintenance(p) ==
    \/ \E o \in SendOps, u \in UserIds, r \in RawIds : StartResolve(p, o, u, r, TRUE, TRUE)
    \/ \E u \in UserIds, m \in 1..(nextMsg - 1) : StartDelete(p, "delete_rest", u, m, Null)
    \/ \E u \in UserIds : StartList(p, u)
    \/ StartSweep(p)

MaintenanceStep(p) ==
    \/ FindReceiver(p)
    \/ FindChat(p)
    \/ CreateChat(p)
    \/ RefindChat(p)
    \/ SaveMessage(p)
    \/ SaveChat(p)
    \/ EmitSend(p)
    \/ DeleteFindMessage(p)
    \/ DeleteMessage(p)
    \/ DeleteFindChat(p)
    \/ DeleteUpdateLastMessage(p)
    \/ EmitDeleted(p)
    \/ SweepStep(p)

\* Sends and deletes running concurrently with sweeps and chat-list requests
\* on a legacy store.
NextMaintenance ==
    \/ \E p \in Procs : StartMaintenance(p)
    \/ \E p \in Procs : MaintenanceStep(p)

\* A legacy store of two chats of the seeded pair, both with pair key A_B.
InitTwins == InitLegacy /\ Len(chats) = 2 /\ \A c \in ChatIds : ~Orphaned(c)

SpecMaintenance == InitTwins /\ [][NextMaintenance]_vars


\* ------------------------------------------ sessions coming and going
StartPrivacy(p) ==
    \/ \E s \in Sockets, c \in ChatIds : StartJoin(p, s, c)
    \/ \E s \in Sockets, r \in UserIds : StartSocketSend(p, s, r, TRUE)
    \/ \E u \in UserIds, r \in UserIds : StartResolve(p, "upload", u, r, TRUE, TRUE)
    \/ StartSweep(p)

PrivacyStep(p) ==
    \/ JoinChat(p)
    \/ FindReceiver(p)
    \/ FindChat(p)
    \/ CreateChat(p)
    \/ RefindChat(p)
    \/ SaveMessage(p)
    \/ SaveChat(p)
    \/ EmitSend(p)
    \/ SweepFind(p)
    \/ SweepMerge(p)
    \/ SweepDeactivate(p)

\* No connection or disconnection handler is between its steps.
PresenceSettled ==
    \A s \in Sockets : ~sockets[s].pending /\ sockets[s].st \notin {"disconnecting", "written"}

(* Sessions connecting, joining and leaving rooms, sending and             *)
(* disconnecting while the sweep runs; a session opens or closes once the  *)
(* presence writes of the previous one have settled.                       *)
NextPrivacy ==
    \/ \E p \in Procs : StartPrivacy(p)
    \/ \E p \in Procs : PrivacyStep(p)
    \/ \E s \in Sockets : PresenceSettled /\ Connect(s, SessionUser(s))
    \/ \E s \in Sockets : ConnectWrite(s)
    \/ \E s \in Sockets, c \in ChatIds : LeaveChat(s, c)
    \/ \E s \in Sockets : PresenceSettled /\ Disconnect(s)
    \/ \E s \in Sockets : DisconnectWrite(s)
    \/ \E s \in Sockets : DisconnectEmit(s)

\* The legacy store of two chats of the seeded pair, the second one the
\* younger, no message and no session open yet.
InitPrivacy ==
    /\ InitTwins
    /\ messages = <<>>
    /\ \A c \in ChatIds : chats[c].createdAt = c

SpecPrivacy == InitPrivacy /\ [][NextPrivacy]_vars

\* ============================================================ claims
Done(p) == procs[p].pc = "done"

\* The chats stored under the pair key of identities a and b.
PairChats(a, b) == {c \in ChatIds : chats[c].participantsKey = SchemaKey(a, b)}

\* A resolution for a pair of two distinct existing users.
ResolvesPair(p) ==
    /\ procs[p].op \in ResolveOps
    /\ procs[p].res # "validation_failed"
    /\ UserFindById(procs[p].rid) # Null
    /\ ToObjectId(procs[p].rid) # procs[p].user

(* C1: once all the concurrently running chat resolutions (send_message,   *)
(* POST /api/messages, POST /upload, POST /chat/create) have completed,    *)
(* the store holds exactly one chat with the pair key of every pair of     *)
(* distinct existing users a resolution ran for, and that chat is active.  *)
C1_OneChatPerPair ==
    Quiescent =>
        \A p \in Procs : (Done(p) /\ ResolvesPair(p)) =>
            /\ Cardinality(PairChats(procs[p].user, procs[p].rid)) = 1
            /\ \A c \in PairChats(procs[p].user, procs[p].rid) : chats[c].isActive

\* Two resolutions of one pair have completed, one of them after losing the race.
C1_Witness ==
    /\ Quiescent
    /\ \E p, q \in Procs :
          /\ p # q /\ Done(p) /\ Done(q) /\ ResolvesPair(p) /\ ResolvesPair(q)
          /\ SchemaKey(procs[p].user, procs[p].rid) = SchemaKey(procs[q].user, procs[q].rid)
          /\ procs[q].dup /\ procs[q].chat = procs[p].chat /\ procs[p].chat # Null

\* The inputs besides the pair are acceptable to the caller's operation.
OtherwiseValid(p) ==
    /\ procs[p].valid
    /\ procs[p].op = "upload" => procs[p].file
    /\ procs[p].op = "chat_create" => ToObjectId(procs[p].rid) # procs[p].user

(* C2: a resolver whose create was rejected by the unique index re-reads   *)
(* by pair key.  When the re-read finds the chat, the operation goes on    *)
(* with it (the chat every other resolver of the pair holds) and ends      *)
(* without an error; an error reaches the caller only when the re-read     *)
(* found no chat.                                                          *)
C2_ConflictRecovered ==
    \A p \in Procs : (Done(p) /\ procs[p].dup) =>
        /\ procs[p].chat = Null <=> ChatFindOneByKey(procs[p].key) = Null
        /\ procs[p].chat = Null => procs[p].res = "error"
        /\ procs[p].chat # Null =>
              /\ chats[procs[p].chat].participantsKey = SchemaKey(procs[p].user, procs[p].rid)
              /\ \A q \in Procs :
                    (/\ procs[q].chat # Null
                     /\ SchemaKey(procs[q].user, procs[q].rid)
                            = SchemaKey(procs[p].user, procs[p].rid))
                    => procs[q].chat = procs[p].chat
              /\ OtherwiseValid(p) => procs[p].res = "ok"

\* A resolver lost the race, recovered and completed with the winner's chat.
C2_Witness ==
    \E p, q \in Procs :
        /\ p # q /\ Done(p) /\ procs[p].dup /\ procs[p].res = "ok"
        /\ procs[q].chat = procs[p].chat /\ procs[p].chat # Null /\ ~procs[q].dup

\* Handlers p and q were called with the two identities swapped.
Swapped(p, q) ==
    /\ procs[p].op \in ResolveOps /\ procs[q].op \in ResolveOps
    /\ procs[p].user = procs[q].rid /\ procs[q].user = procs[p].rid

(* C3: the pair key is symmetric.  Two handlers called with the same two   *)
(* identities in opposite order compute the same lookup key, the key a     *)
(* chat is stored under is the key of the identities in either order, and  *)
(* both handlers resolve to the same chat.                                 *)
C3_PairKeySymmetric ==
    \A p, q \in Procs : Swapped(p, q) =>
        /\ (procs[p].key # NoKey /\ procs[q].key # NoKey) => procs[p].key = procs[q].key
        /\ procs[p].key # NoKey => procs[p].key = LookupKey(procs[q].user, procs[q].rid)
        /\ procs[p].chat # Null =>
              chats[procs[p].chat].participantsKey = SchemaKey(procs[q].user, procs[q].rid)
        /\ (procs[p].chat # Null /\ procs[q].chat # Null) => procs[p].chat = procs[q].chat

\* A send from A to B and one from B to A have both resolved their chat.
C3_Witness ==
    \E p, q \in Procs :
        /\ Swapped(p, q) /\ procs[p].user < procs[q].user
        /\ Done(p) /\ Done(q) /\ procs[p].res = "ok" /\ procs[q].res = "ok"
        /\ procs[p].chat = procs[q].chat /\ procs[p].chat # Null

\* The messages that remain in chat c.
Remaining(c) == {m \in MsgIds : messages[m].chatId = c}

\* p is the handler that ran last.
RanLast(p) == \A q \in Procs : q > p => procs[q].pc = "idle"

(* C4: after the sender deleted the message that was the chat's recorded   *)
(* last message, with no other handler in flight, the pointer names the    *)
(* most recent remaining message of the chat and the timestamp is that     *)
(* message's creation time; both are empty when no message remains.        *)
C4_DeleteRepointsLastMessage ==
    \A p \in Procs :
        (/\ procs[p].op \in DeleteOps /\ Done(p) /\ procs[p].res = "ok"
         /\ RanLast(p)
         /\ procs[p].cid = procs[p].chat /\ procs[p].seen = procs[p].mid)
        => LET c == chats[procs[p].chat]
           IN IF Remaining(procs[p].chat) = {}
              THEN c.lastMessage = Null /\ c.lastMessageAt = Null
              ELSE /\ c.lastMessage \in LatestOf(procs[p].chat)
                   /\ c.lastMessageAt = messages[c.lastMessage].createdAt

(* C5: chat C has last message M1; the deletion of M1 and a send of M2 to  *)
(* C run concurrently and nothing else does.  Once both have completed,    *)
(* C's last-message pointer names M2.                                      *)
C5_SendSurvivesDelete ==
    \A p, q \in Procs :
        (/\ procs[p].op \in DeleteOps /\ Done(p) /\ procs[p].res = "ok"
         /\ procs[q].op \in SendOps /\ Done(q) /\ procs[q].res = "ok"
         /\ procs[q].chat = procs[p].chat
         /\ procs[p].mid = procs[q].msg - 1
         /\ \A r \in Procs \ {p, q} : procs[r].pc = "idle")
        => chats[procs[q].chat].lastMessage = procs[q].msg

\* Both have completed, and the delete read the chat after the send's pointer write.
C5_Witness ==
    \E p, q \in Procs :
        /\ procs[p].op \in DeleteOps /\ Done(p) /\ procs[p].res = "ok"
        /\ procs[q].op \in SendOps /\ Done(q) /\ procs[q].res = "ok"
        /\ procs[q].chat = procs[p].chat
        /\ procs[p].mid = procs[q].msg - 1
        /\ procs[p].cid = procs[p].chat
        /\ procs[p].seen = procs[q].msg
        /\ p < q
        /\ \A r \in Procs \ {p, q} : procs[r].pc = "idle"

Max(a, b) == IF a >= b THEN a ELSE b

(* C6: after two sends to the same chat ran concurrently and completed     *)
(* (nothing else ran), the chat's last-message pointer names the message   *)
(* that was persisted last.                                                *)
C6_PointerIsLastPersisted ==
    \A p, q \in Procs :
        (/\ p # q
         /\ procs[p].op \in SendOps /\ Done(p) /\ procs[p].res = "ok"
         /\ procs[q].op \in SendOps /\ Done(q) /\ procs[q].res = "ok"
         /\ procs[p].chat = procs[q].chat
         /\ \A r \in Procs \ {p, q} : procs[r].pc = "idle")
        => chats[procs[p].chat].lastMessage = Max(procs[p].msg, procs[q].msg)

(* C7: a delete request of a requester who is not the message's sender     *)
(* ends with an authorization error and changes neither the messages, the  *)
(* chats nor the emitted events; whenever a message is removed, the        *)
(* removing handler has passed the sender check for it.                    *)
C7_NonSenderDeleteRejected ==
    [][/\ \A p \in Procs :
            (/\ procs[p].pc = "findMessage" /\ procs'[p].pc # "findMessage"
             /\ procs[p].mid \in MsgIds
             /\ messages[procs[p].mid].sender # procs[p].user)
            => /\ procs'[p].pc = "done" /\ procs'[p].res = "not_authorized"
               /\ messages' = messages /\ chats' = chats /\ emitted' = emitted
       /\ \A m \in MsgIds \ DOMAIN messages' :
            \E p \in Procs : /\ procs[p].pc = "deleteMessage" /\ procs[p].mid = m
                             /\ procs[p].user = messages[m].sender
       /\ \A e \in emitted' \ emitted :
            e.ev = "message_deleted" =>
                \E p \in Procs : procs[p].pc = "emitDeleted" /\ procs[p].mid = e.id
      ]_vars

\* A non-sender's delete request was rejected and the message is still stored.
C7_Witness ==
    \E p \in Procs :
        /\ procs[p].op \in DeleteOps /\ Done(p) /\ procs[p].res = "not_authorized"
        /\ procs[p].mid \in MsgIds
        /\ messages[procs[p].mid].sender # procs[p].user

(* C8: mark_message_read is idempotent: applied to a message that is       *)
(* already read, it leaves the message (read flag, read timestamp) as it   *)
(* was.                                                                    *)
C8_MarkReadIdempotent ==
    [][\A p \in Procs :
            (/\ procs[p].pc = "updateRead" /\ procs'[p].pc # "updateRead"
             /\ procs[p].mid \in MsgIds
             /\ messages[procs[p].mid].isRead)
            => /\ procs[p].mid \in DOMAIN messages'
               /\ messages'[procs[p].mid] = messages[procs[p].mid]
      ]_vars

(* C9: mark_message_read of a message that has been deleted is a no-op:    *)
(* the handler ends without an error, no message record is created, the    *)
(* chats and the emitted events are unchanged (no message_read).           *)
C9_MarkReadOfDeletedIsNoop ==
    [][\A p \in Procs :
            (/\ procs[p].pc = "updateRead" /\ procs'[p].pc # "updateRead"
             /\ procs[p].mid \notin MsgIds)
            => /\ messages' = messages /\ chats' = chats /\ nextMsg' = nextMsg
               /\ emitted' = emitted
               /\ procs'[p].pc = "done" /\ procs'[p].res = "ok"
      ]_vars

\* A read mark ran on a message its sender had deleted, and emitted nothing.
C9_Witness ==
    \E p, q \in Procs :
        /\ procs[p].op = "mark_message_read" /\ Done(p) /\ procs[p].rid = Null
        /\ procs[q].op \in DeleteOps /\ procs[q].mid = procs[p].mid
        /\ procs[q].pc \in {"findChatById", "populateLast", "emitDeleted", "done"}
        /\ procs[q].chat # Null
        /\ procs[p].mid \notin MsgIds
        /\ \A e \in emitted : e.ev # "message_read"

\* The users with a live connection.
LiveUsers(ss) == {ss[s].user : s \in {r \in Sockets : ss[r].st = "connected"}}

(* C10: on a disconnect the user's registry entry is removed, the online   *)
(* flag is cleared and user_offline is broadcast only if the user has no   *)
(* other live connection at that moment.                                   *)
C10_OfflineOnlyWithoutConnection ==
    [][\A u \in UserIds :
            (\/ activeUsers[u] # Null /\ activeUsers'[u] = Null
             \/ online[u] /\ ~online'[u]
             \/ \E e \in emitted' \ emitted : e.ev = "user_offline" /\ e.id = u)
            => u \notin LiveUsers(sockets')
      ]_vars

\* Every presence write issued so far has reached the store.
PresenceWritesDone ==
    \A s \in Sockets : ~sockets[s].pending /\ sockets[s].st # "disconnecting"

(* C11: once all presence store writes have completed, a user's persisted  *)
(* online flag is true if and only if the user has at least one live       *)
(* connection.                                                             *)
C11_OnlineIffConnected ==
    PresenceWritesDone =>
        \A u \in UserIds : online[u] <=> u \in LiveUsers(sockets)

\* The channels a message_deleted event for message m was emitted to.
DeletedTo(m) == {e.to : e \in {f \in emitted : f.ev = "message_deleted" /\ f.id = m}}

(* C17: every successful delete emits message_deleted to the chat's room   *)
(* and to the personal channels of both participants, the receiver's and   *)
(* the sender's.                                                           *)
C17_DeleteNotifiesBothUsers ==
    \A p \in Procs :
        procs[p].op \in DeleteOps /\ Done(p) /\ procs[p].res = "ok" =>
            {<<"chat", procs[p].chat>>,
             <<"user", procs[p].rid>>,
             <<"user", procs[p].user>>} \subseteq DeletedTo(procs[p].mid)

(* C15: every successful send_message from A to B puts new_message on B's  *)
(* personal channel and on the chat's room channel and message_sent on A's *)
(* session; the chat it used carries the sorted pair key of A and B and    *)
(* the persisted message carries that chat's identity.                     *)
C15_SendDelivers ==
    \A p \in Procs :
        procs[p].op = "send_message" /\ Done(p) /\ procs[p].res = "ok" =>
            LET q == procs[p]
            IN  /\ Event("new_message", <<"user", ToObjectId(q.rid)>>, q.msg) \in emitted
                /\ Event("new_message", <<"chat", q.chat>>, q.msg) \in emitted
                /\ Event("message_sent", <<"caller", p>>, q.msg) \in emitted
                /\ chats[q.chat].participantsKey = SchemaKey(q.user, q.rid)
                /\ q.msg \in MsgIds => messages[q.msg].chatId = q.chat

\* The chats sweep p read, and among them the ones sharing chat c's pair key.
Snapshot(p) == {procs[p].all[j].id : j \in 1..Len(procs[p].all)}

SameKey(p, c) ==
    {d \in Snapshot(p) : chats[d].participantsKey = chats[c].participantsKey}

\* The chats of group G with the most recent time.
MostRecent(G) == {k \in G : \A d \in G : TimeOf(chats[k]) >= TimeOf(chats[d])}

(* C18: a sweep over a store with several active chats of one pair key     *)
(* moves the messages of a group only to the group's most recent chat,     *)
(* ends with exactly that chat active and no message left in the others,   *)
(* and a second sweep right after it changes no chat and no message.       *)
C18_SweepMergesDuplicates ==
    [][\A p \in Procs : procs'[p].op = "sweep" =>
          /\ \A m \in MsgIds :
                messages'[m].chatId # messages[m].chatId =>
                    /\ messages[m].chatId \in SameKey(p, messages'[m].chatId)
                    /\ messages'[m].chatId \in MostRecent(SameKey(p, messages'[m].chatId))
          /\ procs[p].pc # "done" /\ procs'[p].pc = "done" =>
                \A c \in Snapshot(p) : ~Orphaned(c) /\ Cardinality(SameKey(p, c)) > 1 =>
                    LET kept == {d \in SameKey(p, c) : chats'[d].isActive}
                    IN  /\ Cardinality(kept) = 1
                        /\ kept \subseteq MostRecent(SameKey(p, c))
                        /\ \A m \in MsgIds :
                              messages'[m].chatId \notin SameKey(p, c) \ kept
          /\ p > 1 /\ procs[p - 1].op = "sweep" /\ procs[p].pc # "done" =>
                /\ chats' = chats
                /\ messages' = messages
                /\ procs'[p].pc = "done" => ChatsToDeactivate(procs'[p].all) = {}
      ]_vars

\* Two sweeps have run; the first merged a group and moved a message.
C18_Witness ==
    /\ procs[1].op = "sweep" /\ Done(1) /\ procs[2].op = "sweep" /\ Done(2)
    /\ \E c \in Snapshot(1) :
          /\ ~chats[c].isActive /\ ~Orphaned(c)
          /\ chats[c].lastMessage \in MsgIds
          /\ messages[chats[c].lastMessage].chatId # c
          /\ chats[messages[chats[c].lastMessage].chatId].isActive

(* C19: after a sweep has merged duplicate chats, the last-message pointer *)
(* of the chat it kept is on the most recent of the messages now assigned  *)
(* to that chat (and is empty only when there is none).                    *)
C19_SweepRepointsKeptChat ==
    \A p \in Procs :
        procs[p].op = "sweep" /\ Done(p) =>
            \A c \in Snapshot(p) :
                chats[c].isActive /\ Cardinality(SameKey(p, c)) > 1 =>
                    IF LatestOf(c) = {} THEN chats[c].lastMessage = Null
                    ELSE chats[c].lastMessage \in LatestOf(c)

DeliveryEvents == {"new_message", "message_sent", "chat_message"}

(* C12: a delivery event (new_message, message_sent, chat_message) is      *)
(* emitted only for a message that is already in the store with its        *)
(* identity and creation time, and a handler whose message was not         *)
(* persisted emits no delivery event.                                      *)
C12_DeliveryAfterPersistence ==
    [][\A e \in emitted' \ emitted :
          e.ev \in DeliveryEvents =>
              /\ e.id \in MsgIds
              /\ messages[e.id].createdAt \in 1..now
              /\ \A p \in Procs : procs'[p] # procs[p] => procs[p].msg = e.id
      ]_vars

\* One send failed at message.save() and is over; another delivered its message.
C12_Witness ==
    \E p, q \in Procs :
        /\ procs[p].op = "send_message" /\ ~procs[p].valid
        /\ Done(p) /\ procs[p].res = "error" /\ procs[p].chat # Null
        /\ procs[q].op \in SendOps /\ Done(q) /\ procs[q].res = "ok"
        /\ \E e \in emitted : e.ev = "new_message" /\ e.id = procs[q].msg

(* C13: a session that has received the new_message events of two messages *)
(* of one chat received them in the order in which the messages were       *)
(* committed to the store (message identities are handed out in commit     *)
(* order).                                                                 *)
C13_DeliveryInCommitOrder ==
    \A s \in Sockets :
        LET inbox == sockets[s].inbox
        IN  \A i, j \in 1..Len(inbox) :
                /\ i < j
                /\ inbox[i].ev = "new_message" /\ inbox[j].ev = "new_message"
                /\ inbox[i].id \in MsgIds /\ inbox[j].id \in MsgIds
                /\ inbox[i].id # inbox[j].id
                /\ messages[inbox[i].id].chatId = messages[inbox[j].id].chatId
                => inbox[i].id < inbox[j].id

(* C14: no session receives the new_message event of one message, or the   *)
(* message_deleted event of one message, more than once, whatever rooms    *)
(* it is subscribed to.                                                    *)
C14_ReceivedOnce ==
    \A s \in Sockets :
        LET inbox == sockets[s].inbox
        IN  \A i, j \in 1..Len(inbox) :
                i # j /\ inbox[i].ev \in {"new_message", "message_deleted"}
                => inbox[i] # inbox[j]

\* User u is a participant of the stored, active chat c.
ActiveParticipant(c, u) ==
    /\ c \in ChatIds
    /\ chats[c].isActive
    /\ u \in {chats[c].participants[1], chats[c].participants[2]}

(* C16: a session's room subscriptions grow only in the step in which its  *)
(* own join_chat finds its user among the participants of that chat, the   *)
(* chat being active; a join_chat by a non-participant, or for an inactive *)
(* or unknown chat, changes no session's subscriptions and is answered     *)
(* with an error and no joined_chat.                                       *)
C16_JoinOnlyForParticipants ==
    [][/\ \A s \in Sockets : \A c \in sockets'[s].rooms \ sockets[s].rooms :
             \E p \in Procs :
                 /\ procs[p].op = "join_chat" /\ procs[p].pc = "findJoin" /\ Done(p)'
                 /\ procs[p].sock = s /\ procs[p].cid = c
                 /\ procs[p].user = sockets[s].user
                 /\ ActiveParticipant(c, sockets[s].user)
       /\ \A p \in Procs :
             /\ procs[p].op = "join_chat" /\ procs[p].pc = "findJoin" /\ Done(p)'
             /\ ~ActiveParticipant(procs[p].cid, procs[p].user)
             => /\ \A s \in Sockets : sockets'[s].rooms = sockets[s].rooms
                /\ Event("error", <<"caller", p>>, procs[p].cid) \in emitted'
                /\ Event("joined_chat", <<"caller", p>>, procs[p].cid) \notin emitted'
                /\ procs'[p].res = "not_authorized"
      ]_vars

\* One session joined the seeded chat; a participant's join of an inactive
\* chat was refused.
C16_Witness ==
    \E p, q \in Procs :
        /\ procs[p].op = "join_chat" /\ Done(p) /\ procs[p].res = "ok"
        /\ procs[p].cid \in sockets[procs[p].sock].rooms
        /\ procs[q].op = "join_chat" /\ Done(q) /\ procs[q].res = "not_authorized"
        /\ procs[q].cid \in ChatIds /\ ~chats[procs[q].cid].isActive
        /\ procs[q].user \in {chats[procs[q].cid].participants[1]}
        /\ sockets[procs[q].sock].rooms = {}

(* C21: a resolution whose two identities are equal ends in a validation   *)
(* failure, and no stored chat has the same user as both participants.     *)
C21_NoSelfChat ==
    /\ \A c \in ChatIds : chats[c].participants[1] # chats[c].participants[2]
    /\ \A p \in Procs :
          /\ procs[p].op \in ResolveOps /\ Done(p)
          /\ ToObjectId(procs[p].rid) = procs[p].user
          => procs[p].res \in {"validation_failed", "error"}

(* C22: a send whose receiver identity is of no user ends as "receiver not *)
(* found"; no step of it changes a chat or a message, and it emits to no   *)
(* one but its caller and reaches no other session.                        *)
C22_UnknownReceiverRejected ==
    [][\A p \in Procs :
          /\ procs'[p].op \in SendOps
          /\ ToObjectId(procs'[p].rid) \notin UserIds
          /\ procs'[p] # procs[p]
          => /\ chats' = chats
             /\ messages' = messages
             /\ \A e \in emitted' \ emitted : e.to = <<"caller", p>>
             /\ \A s \in Sockets : s # procs'[p].sock => sockets'[s] = sockets[s]
             /\ Done(p)' => procs'[p].res = "receiver_not_found"
      ]_vars

\* A send_message to an unknown receiver was refused and told so, while
\* another send went through.
C22_Witness ==
    \E p, q \in Procs :
        /\ procs[p].op = "send_message" /\ Done(p)
        /\ procs[p].rid = UnknownId /\ procs[p].res = "receiver_not_found"
        /\ Event("error", <<"caller", p>>, Null) \in emitted
        /\ procs[q].op \in SendOps /\ Done(q) /\ procs[q].res = "ok"

\* Handler p's own connection has closed.
SenderGone(p) == sockets[procs[p].sock].st # "connected"

(* C23: a send_message with valid content to an existing user (named by    *)
(* the canonical string of their identity), whose connection closes while  *)
(* it is in flight, still persists its message, sets the chat's            *)
(* last-message pointer to it and emits new_message on the receiver's      *)
(* personal channel, while its message_sent reaches no session; and a      *)
(* disconnect removes the user's registry entry in its first step.         *)
C23_SendOutlivesDisconnect ==
    [][/\ \A p \in Procs :
             /\ procs[p].op = "send_message" /\ SenderGone(p)
             /\ procs[p].rid \in UserIds
             /\ procs'[p] # procs[p]
             => /\ procs[p].pc = "saveMessage" =>
                      /\ procs'[p].pc = "saveChat"
                      /\ procs'[p].msg \in MsgIds' \ MsgIds
                /\ procs[p].pc = "saveChat" /\ procs'[p].pc # "saveChat" =>
                      chats'[procs[p].chat].lastMessage = procs[p].msg
                /\ procs[p].pc = "emit" /\ procs'[p].pc # "emit" =>
                      /\ Done(p)' /\ procs'[p].res = "ok"
                      /\ Event("new_message", <<"user", procs[p].rid>>,
                               procs[p].msg) \in emitted'
                      /\ sockets'[procs[p].sock] = sockets[procs[p].sock]
       /\ \A s \in Sockets :
             sockets[s].st = "connected" /\ sockets'[s].st # "connected" =>
                 activeUsers'[sockets[s].user] = Null
      ]_vars

\* A send to the other user completed after its own connection had closed,
\* with no other handler on that connection: the receiver got new_message,
\* the closed connection nothing.
C23_Witness ==
    \E p \in Procs :
        /\ procs[p].op = "send_message" /\ Done(p) /\ procs[p].res = "ok"
        /\ procs[p].rid \in UserIds \ {procs[p].user}
        /\ SenderGone(p)
        /\ \A q \in Procs \ {p} : procs[q].sock # procs[p].sock
        /\ chats[procs[p].chat].lastMessage = procs[p].msg
        /\ sockets[procs[p].sock].inbox = <<>>
        /\ \E s \in Sockets :
              /\ sockets[s].user = procs[p].rid
              /\ \E j \in 1..Len(sockets[s].inbox) :
                    sockets[s].inbox[j] = [ev |-> "new_message", id |-> procs[p].msg]

(* C24: what a delete does to the store depends on the message and the     *)
(* requester only, not on the path or on the chatId sent along: it leaves  *)
(* every chat as it is (pointer and timestamp included), removes the       *)
(* message exactly when it ends successfully, and is refused exactly when  *)
(* the message is missing or the requester is not its sender.              *)
C24_DeletePathsAgree ==
    [][\A p \in Procs :
          procs'[p].op \in DeleteOps /\ procs'[p] # procs[p] =>
              LET m == procs'[p].mid
              IN  /\ chats' = chats
                  /\ \/ messages' = messages
                     \/ /\ m \in MsgIds /\ messages[m].sender = procs[p].user
                        /\ messages' = [n \in MsgIds \ {m} |-> messages[n]]
                  /\ Done(p)' /\ procs'[p].res = "ok" => m \notin MsgIds'
                  /\ Done(p)' /\ procs'[p].res # "ok" =>
                        /\ messages' = messages
                        /\ m \in MsgIds => messages[m].sender # procs[p].user
                  /\ procs[p].pc = "findMessage" /\ ~Done(p)' =>
                        m \in MsgIds /\ messages[m].sender = procs[p].user
                  /\ procs[p].pc = "deleteMessage" => m \notin MsgIds'
      ]_vars

\* Both paths have deleted a message of the seeded chat, the socket path
\* with the id of another chat; the chat still points at a deleted message.
C24_Witness ==
    \E p, q \in Procs :
        /\ procs[p].op = "delete_rest" /\ Done(p) /\ procs[p].res = "ok"
        /\ procs[q].op = "delete_message" /\ Done(q) /\ procs[q].res = "ok"
        /\ procs[q].cid # procs[q].chat
        /\ procs[p].chat = 1 /\ procs[q].chat = 1
        /\ procs[p].mid \notin MsgIds /\ procs[q].mid \notin MsgIds
        /\ chats[1].lastMessage \in {procs[p].mid, procs[q].mid}

(* C25: whenever a send persists its message, the chat the message is      *)
(* attached to is active at that moment.                                   *)
C25_SendIntoActiveChat ==
    [][\A p \in Procs :
          /\ procs[p].op \in SendOps /\ procs[p].pc = "saveMessage"
          /\ procs'[p].msg \in MsgIds' \ MsgIds
          => chats'[messages'[procs'[p].msg].chatId].isActive
      ]_vars

(* C27: every stored message belongs to a stored chat whose pair key is    *)
(* the sorted pair of the message's sender and receiver.                   *)
C27_MessageInChatOfItsPair ==
    \A m \in MsgIds :
        /\ messages[m].chatId \in ChatIds
        /\ chats[messages[m].chatId].participantsKey
              = SchemaKey(messages[m].sender, messages[m].receiver)

\* A sweep has finished merging: the last message of a chat it deactivated
\* now belongs to the chat it kept, and another handler has sent or deleted.
C27_Witness ==
    /\ \E p \in Procs : procs[p].op = "sweep" /\ Done(p) /\ procs[p].i > 0
    /\ \E p \in Procs : procs[p].op \in SendOps \cup DeleteOps /\ Done(p)
                          /\ procs[p].res = "ok"
    /\ \E c \in ChatIds, m \in MsgIds :
          ~chats[c].isActive /\ chats[c].lastMessage = m /\ messages[m].chatId # c


(* C26: a session receives new_message, chat_message or message_sent only  *)
(* for a message whose sender or receiver is the session's user.           *)
C26_ContentOnlyToParties ==
    \A s \in Sockets : \A j \in DOMAIN sockets[s].inbox :
        LET e == sockets[s].inbox[j]
        IN  e.ev \in DeliveryEvents
            => /\ e.id \in MsgIds
               /\ sockets[s].user \in {messages[e.id].sender, messages[e.id].receiver}

\* A session has received a message while another user's session, neither
\* its sender nor its receiver, is connected and in a chat room, after a
\* session has closed.
C26_Witness ==
    /\ \E r \in Sockets : sockets[r].st = "closed"
    /\ \E s \in Sockets, t \in Sockets, m \in MsgIds :
          /\ sockets[s].st = "connected"
          /\ sockets[s].rooms # {}
          /\ sockets[s].user \notin {messages[m].sender, messages[m].receiver}
          /\ \E j \in DOMAIN sockets[t].inbox :
                sockets[t].inbox[j].ev \in DeliveryEvents /\ sockets[t].inbox[j].id = m
====
